---- MODULE Spec2Model ----
(***************************************************************************)
(* ProFlex Draw: the gas-piping graph editor and its validation engine.    *)
(*                                                                         *)
(* The repository holds three revisions of the App component:              *)
(*   "App"      src/App.tsx                                                *)
(*   "part_001" src/unnamed/part_001                                       *)
(*   "part_002" src/unnamed/part_002 (lines 1-480)                         *)
(* The variable build says which revision is running; it never changes.    *)
(*                                                                         *)
(* Units: btu, flow and capacity are BTU/hr as in the source; pressureDrop *)
(* is kept in tenths of an inch w.c. (5 stands for the source's 0.5).      *)
(* Node and edge ids are the source's random strings, modelled as          *)
(* integers; display fields (x, y, name) are not modelled.                 *)
(***************************************************************************)
EXTENDS Integers, Sequences, FiniteSets, TLC

VARIABLES
    build,            \* which revision of App runs
    nodes,            \* useState<AppNode[]>    : sequence of [id, type, btu]
    edges,            \* useState<AppEdge[]>    : sequence of [id, from, to, size, length]
    pressureDrop,     \* useState<number>(0.5)  : tenths of an inch w.c.
    selectedPipeSize, \* useState<PipeSize>(PipeSize.HALF)
    validation,       \* useState<Record<string, verdict>>({})
    effectPending,    \* the validation effect is scheduled and has not run yet
    crashed,          \* an exception escaped the effect: React unmounted the app
    lastOp,           \* the handler whose effect is pending, with its argument
    saved,            \* the design kept in localStorage, NoDesign when absent
    audit,            \* isAuditing, aiReport and the audit request in flight
    selectedId,       \* useState<string | null>(null): the selected node or edge
    selectedTool,     \* useState<'pipe' | 'select'>('select')
    tapPipingSource,  \* Canvas, useState<string | null>(null): the pending source
    projectName,      \* useState('New Project')
    currentProjectId, \* useState<string | null>(null)
    recentProjects,   \* useState<RecentProject[]>([])
    storedRecents     \* localStorage[RECENTS_KEY], parsed

vars == <<build, nodes, edges, pressureDrop, selectedPipeSize, validation,
          effectPending, crashed, lastOp, saved, audit, selectedId, selectedTool,
          tapPipingSource, projectName, currentProjectId, recentProjects,
          storedRecents>>

\* The Canvas state and the project state, for the handlers that leave them alone.
canvasVars == <<selectedTool, tapPipingSource>>
projectVars == <<projectName, currentProjectId, recentProjects, storedRecents>>

-----------------------------------------------------------------------------
(* Types and constants                                                     *)

Builds == {"App", "part_001", "part_002"}

NodeType == {"METER", "JUNCTION", "MANIFOLD", "APPLIANCE"}

PIPE_ORDER == <<"THREE_EIGHTHS", "HALF", "THREE_QUARTERS", "ONE", "ONE_AND_QUARTER">>

PipeSize == {PIPE_ORDER[i] : i \in 1..Len(PIPE_ORDER)}

\* Array.prototype.indexOf: 0-based position, -1 when absent.
indexOf(seq, x) ==
    IF \E i \in 1..Len(seq) : seq[i] = x
    THEN (CHOOSE i \in 1..Len(seq) : seq[i] = x /\ \A j \in 1..(i - 1) : seq[j] # x) - 1
    ELSE -1

\* Array.prototype.find on the id field: index of the first match, 0 when none.
findById(seq, id) ==
    IF \E i \in 1..Len(seq) : seq[i].id = id
    THEN CHOOSE i \in 1..Len(seq) : seq[i].id = id /\ \A j \in 1..(i - 1) : seq[j].id # id
    ELSE 0

\* edges.find(e => e.to === nodeId): index of the first inbound edge, 0 when none.
findByTo(es, nodeId) ==
    IF \E i \in 1..Len(es) : es[i].to = nodeId
    THEN CHOOSE i \in 1..Len(es) : es[i].to = nodeId /\ \A j \in 1..(i - 1) : es[j].to # nodeId
    ELSE 0

RECURSIVE SumSeq(_)
SumSeq(s) == IF s = << >> THEN 0 ELSE Head(s) + SumSeq(Tail(s))

\* DEFAULT_APPLIANCES: the btu ratings the toolbar offers.
DEFAULT_APPLIANCES == <<100000, 40000, 65000, 30000, 20000>>

-----------------------------------------------------------------------------
(* Capacity model                                                          *)

\* Math.floor(Math.pow((pressureDrop / length) / spec.coeff, 1 / spec.exp))
\* for the PIPE_SPECS coefficients, evaluated in IEEE double arithmetic for
\* each pressure drop (tenths) and length (feet) of the model; one row per
\* (pressureDrop, length), one column per size in PIPE_ORDER.
CfhRow(pd, length) ==
    CASE pd = 1 /\ length = 1   -> <<64, 107, 283, 626, 950>>
      [] pd = 1 /\ length = 10  -> <<20, 37, 89, 171, 299>>
      [] pd = 1 /\ length = 50  -> <<9, 17, 40, 69, 133>>
      [] pd = 1 /\ length = 100 -> <<6, 12, 28, 46, 94>>
      [] pd = 1 /\ length = 250 -> <<4, 8, 17, 27, 59>>
      [] pd = 5 /\ length = 1   -> <<142, 226, 632, 1549, 2132>>
      [] pd = 5 /\ length = 10  -> <<45, 78, 200, 424, 671>>
      [] pd = 5 /\ length = 50  -> <<20, 37, 89, 171, 299>>
      [] pd = 5 /\ length = 100 -> <<14, 26, 63, 116, 211>>
      [] pd = 5 /\ length = 250 -> <<9, 17, 40, 69, 133>>
      [] pd = 10 /\ length = 1   -> <<201, 312, 894, 2289, 3020>>
      [] pd = 10 /\ length = 10  -> <<64, 107, 283, 626, 950>>
      [] pd = 10 /\ length = 50  -> <<29, 51, 126, 253, 423>>
      [] pd = 10 /\ length = 100 -> <<20, 37, 89, 171, 299>>
      [] pd = 10 /\ length = 250 -> <<13, 24, 56, 102, 188>>
      [] pd = 1000 /\ length = 1   -> <<1953, 2637, 8928, 30586, 30483>>
      [] pd = 1000 /\ length = 10  -> <<626, 907, 2825, 8368, 9595>>
      [] pd = 1000 /\ length = 50  -> <<283, 430, 1264, 3382, 4277>>
      [] pd = 1000 /\ length = 100 -> <<201, 312, 894, 2289, 3020>>
      [] pd = 1000 /\ length = 250 -> <<127, 204, 565, 1366, 1906>>

PressureDrops == {1, 5, 10}

Lengths == {1, 10, 50, 100, 250}

\* A value typed into part_002's System Drop field, which has no upper limit:
\* 100 in. w.c.
TypedPressureDrops == {1000}

\* The values standing for the doubles Infinity and NaN.
Infinity == 2147483647

NaN == -2

\* App.tsx and part_001: 0 for an unknown size or a length <= 0.  Math.pow of
\* a negative base (a negative pressureDrop) and a fractional exponent is NaN.
calculateCapacity(size, length, pd) ==
    IF size \notin PipeSize \/ length <= 0 THEN 0
    ELSE IF pd < 0 THEN NaN
    ELSE CfhRow(pd, length)[indexOf(PIPE_ORDER, size) + 1] * 1000

\* part_002: 0 for an unknown size only.  With length 0 the quotient
\* pressureDrop / length is Infinity (-Infinity for a negative pressureDrop,
\* whose power is NaN) and so is Math.floor(cfh) * 1000; with a negative
\* quotient Math.pow of a negative base and a fractional exponent is NaN.
calculateCapacity_p2(size, length, pd) ==
    IF size \notin PipeSize THEN 0
    ELSE IF length = 0 THEN (IF pd < 0 THEN NaN ELSE Infinity)
    ELSE IF (length < 0) # (pd < 0) THEN NaN
    ELSE CfhRow(pd, length)[indexOf(PIPE_ORDER, size) + 1] * 1000

-----------------------------------------------------------------------------
(* Demand propagation                                                      *)

\* The value standing for "RangeError: Maximum call stack size exceeded".
StackOverflow == -1

\* getFlow that charges every edge with the demand of every appliance of the
\* network, whichever meter feeds it.
getFlow_allAppliances(ns, es, edgeId, depth) ==
    SumSeq([k \in 1..Len(ns) |-> IF ns[k].type = "APPLIANCE" THEN ns[k].btu ELSE 0])

\* getFlow that charges an edge whose destination names no node with the
\* rating of the first toolbar appliance.
RECURSIVE getFlow_danglingCounts(_, _, _, _)
getFlow_danglingCounts(ns, es, edgeId, depth) ==
    IF depth > Len(es) THEN StackOverflow
    ELSE
    LET ei == findById(es, edgeId) IN
    IF ei = 0 THEN 0
    ELSE
    LET ni == findById(ns, es[ei].to) IN
    IF ni = 0 THEN DEFAULT_APPLIANCES[1]
    ELSE
    LET targetNode == ns[ni]
        own  == IF targetNode.type = "APPLIANCE" THEN targetNode.btu ELSE 0
        outs == SelectSeq(es, LAMBDA e : e.from = targetNode.id)
        sub  == [k \in 1..Len(outs) |-> getFlow_danglingCounts(ns, es, outs[k].id, depth + 1)]
    IN  IF \E k \in 1..Len(outs) : sub[k] = StackOverflow THEN StackOverflow
        ELSE own + SumSeq(sub)

\* getFlow with edges.find in place of edges.filter: only the first outbound
\* edge of the destination is followed.
RECURSIVE getFlow_firstOutbound(_, _, _, _)
getFlow_firstOutbound(ns, es, edgeId, depth) ==
    IF depth > Len(es) THEN StackOverflow
    ELSE
    LET ei == findById(es, edgeId) IN
    IF ei = 0 THEN 0
    ELSE
    LET ni == findById(ns, es[ei].to) IN
    IF ni = 0 THEN 0
    ELSE
    LET targetNode == ns[ni]
        own  == IF targetNode.type = "APPLIANCE" THEN targetNode.btu ELSE 0
        outs == SelectSeq(es, LAMBDA e : e.from = targetNode.id)
        sub  == IF outs = << >> THEN 0
                ELSE getFlow_firstOutbound(ns, es, outs[1].id, depth + 1)
    IN  IF sub = StackOverflow THEN StackOverflow ELSE own + sub

\* getFlow(edgeId), the recursive closure of validateSystem.  The source has
\* no visited set: a call chain longer than the number of edges repeats an
\* edge id, so the recursion never returns and the engine raises RangeError.
RECURSIVE getFlow(_, _, _, _)
getFlow(ns, es, edgeId, depth) ==
    IF depth > Len(es) THEN StackOverflow
    ELSE
    LET ei == findById(es, edgeId) IN
    IF ei = 0 THEN 0
    ELSE
    LET ni == findById(ns, es[ei].to) IN
    IF ni = 0 THEN 0
    ELSE
    LET targetNode == ns[ni]
        own  == IF targetNode.type = "APPLIANCE" THEN targetNode.btu ELSE 0
        outs == SelectSeq(es, LAMBDA e : e.from = targetNode.id)
        sub  == [k \in 1..Len(outs) |-> getFlow(ns, es, outs[k].id, depth + 1)]
    IN  IF \E k \in 1..Len(outs) : sub[k] = StackOverflow
        THEN StackOverflow
        ELSE own + SumSeq(sub)

-----------------------------------------------------------------------------
(* Network validator                                                       *)

\* The error text is modelled by the messages it is made of, in order.
NoError == << >>

lastIndexOfId(es, id) ==
    CHOOSE i \in 1..Len(es) : es[i].id = id /\ \A j \in (i + 1)..Len(es) : es[j].id # id

edgeIds(es) == {es[i].id : i \in 1..Len(es)}

nodeIds(ns) == {ns[i].id : i \in 1..Len(ns)}

\* The body of edges.forEach in App.tsx and part_001: the verdict stored for
\* the edge at position i, whose getFlow is flow.
verdictOf(es, pd, i, flow) ==
    LET edge     == es[i]
        capacity == calculateCapacity(edge.size, edge.length, pd)
    IN  [isValid |-> capacity # NaN /\ flow <= capacity,     \* flow <= NaN is false
         flow |-> flow, capacity |-> capacity, error |-> NoError]

\* The body of edges.forEach in part_002: capacity check, then sizing-order
\* check against the first edge that ends where this one starts.
verdictOf_p2(es, pd, i, flow) ==
    LET edge     == es[i]
        capacity == calculateCapacity_p2(edge.size, edge.length, pd)
        capFail  == capacity # NaN /\ flow > capacity     \* flow > NaN is false
        upstreamEdge == findByTo(es, edge.from)
        sizeFail == /\ upstreamEdge # 0
                    /\ indexOf(PIPE_ORDER, edge.size) > indexOf(PIPE_ORDER, es[upstreamEdge].size)
    IN  [isValid |-> ~capFail /\ ~sizeFail, flow |-> flow, capacity |-> capacity,
         error |-> (IF capFail THEN <<"capacity">> ELSE << >>)
                   \o (IF sizeFail THEN <<"sizing">> ELSE << >>)]

\* getFlow(edge.id) for every edge, in list order.
flowsOf(ns, es) == [i \in 1..Len(es) |-> getFlow(ns, es, es[i].id, 1)]

\* validateSystem of App.tsx: raised tells whether the pass threw; results is
\* the object handed to setValidation (a later edge with the same id
\* overwrites an earlier one).
validateSystem(ns, es, pd) ==
    LET flows == flowsOf(ns, es) IN
    IF \E i \in 1..Len(es) : flows[i] = StackOverflow
    THEN [raised |-> TRUE, results |-> << >>]
    ELSE [raised |-> FALSE,
          results |-> [id \in edgeIds(es) |->
                         LET i == lastIndexOfId(es, id) IN verdictOf(es, pd, i, flows[i])]]

\* validateSystem of part_001 (the same text as App.tsx).
validateSystem_p1(ns, es, pd) == validateSystem(ns, es, pd)

\* validateSystem of part_002: adds the sizing-order check and the messages.
validateSystem_p2(ns, es, pd) ==
    LET flows == flowsOf(ns, es) IN
    IF \E i \in 1..Len(es) : flows[i] = StackOverflow
    THEN [raised |-> TRUE, results |-> << >>]
    ELSE [raised |-> FALSE,
          results |-> [id \in edgeIds(es) |->
                         LET i == lastIndexOfId(es, id) IN verdictOf_p2(es, pd, i, flows[i])]]

\* nodes and edges that are no arrays: undefined (a key the parsed JSON lacks)
\* and an object (a key that holds {}).  They stand here as one-element lists
\* with the marker in the type or size field.
undefinedNodes == << [id |-> 0, type |-> "undefined", btu |-> 0] >>
undefinedEdges == << [id |-> 0, from |-> 0, to |-> 0, size |-> "undefined", length |-> 0] >>
objectEdges == << [id |-> 0, from |-> 0, to |-> 0, size |-> "object", length |-> 0] >>

\* Array.isArray
isArray(list) ==
    /\ list \notin {undefinedNodes, undefinedEdges, objectEdges}

\* The validateSystem of the running revision.  edges.forEach throws a
\* TypeError when edges is no array, and getFlow's nodes.find when nodes is
\* none and there is an edge to look at.
validate(b, ns, es, pd) ==
    CASE ~isArray(es) \/ (~isArray(ns) /\ es # << >>) -> [raised |-> TRUE, results |-> << >>]
      [] b = "App"      -> validateSystem(ns, es, pd)
      [] b = "part_001" -> validateSystem_p1(ns, es, pd)
      [] b = "part_002" -> validateSystem_p2(ns, es, pd)

\* A pass that patches the stored map, setValidation(prev => ({...prev, ...results})),
\* in place of replacing it.
ValidationEffect_patching ==
    /\ effectPending /\ ~crashed
    /\ LET r == validate(build, nodes, edges, pressureDrop) IN
        /\ validation' = IF r.raised THEN validation
                          ELSE [id \in DOMAIN validation \cup DOMAIN r.results |->
                                  IF id \in DOMAIN r.results THEN r.results[id] ELSE validation[id]]
        /\ crashed' = r.raised
    /\ effectPending' = FALSE
    /\ lastOp' = [op |-> "other", id |-> 0]
    /\ UNCHANGED <<build, nodes, edges, pressureDrop, selectedPipeSize, saved, audit,
                   selectedId, canvasVars, projectVars>>

\* A pass that adds each edge's new flow to the flow stored for it before.
ValidationEffect_accumulating ==
    /\ effectPending /\ ~crashed
    /\ LET r == validate(build, nodes, edges, pressureDrop) IN
        /\ validation' = IF r.raised THEN validation
                          ELSE [id \in DOMAIN r.results |->
                                  IF id \in DOMAIN validation
                                  THEN [r.results[id] EXCEPT !.flow = @ + validation[id].flow]
                                  ELSE r.results[id]]
        /\ crashed' = r.raised
    /\ effectPending' = FALSE
    /\ lastOp' = [op |-> "other", id |-> 0]
    /\ UNCHANGED <<build, nodes, edges, pressureDrop, selectedPipeSize, saved, audit,
                   selectedId, canvasVars, projectVars>>

\* A pass that drops the edges whose destination names no node as it goes.
ValidationEffect_pruning ==
    /\ effectPending /\ ~crashed
    /\ LET r == validate(build, nodes, edges, pressureDrop) IN
        /\ validation' = IF r.raised THEN validation ELSE r.results
        /\ crashed' = r.raised
    /\ edges' = SelectSeq(edges, LAMBDA e : findById(nodes, e.to) # 0)
    /\ effectPending' = FALSE
    /\ lastOp' = [op |-> "other", id |-> 0]
    /\ UNCHANGED <<build, nodes, pressureDrop, selectedPipeSize, saved, audit,
                   selectedId, canvasVars, projectVars>>

\* useEffect(() => { validateSystem(); }, [nodes, edges, validateSystem]):
\* the pass reads nodes, edges and pressureDrop and writes validation only.
\* A pass that throws leaves the state unwritten and takes the app down.
ValidationEffect ==
    /\ effectPending /\ ~crashed
    /\ LET r == validate(build, nodes, edges, pressureDrop) IN
        /\ validation' = IF r.raised THEN validation ELSE r.results
        /\ crashed' = r.raised
    /\ effectPending' = FALSE
    /\ lastOp' = [op |-> "other", id |-> 0]
    /\ UNCHANGED <<build, nodes, edges, pressureDrop, selectedPipeSize, saved, audit,
                   selectedId, canvasVars, projectVars>>

-----------------------------------------------------------------------------
(* The narrative audit                                                     *)

\* useState(false) for isAuditing, useState<string | null>(null) for aiReport;
\* pending: an auditSystem call is in flight; outcome: how the last call
\* ended; propagated: handleRunAudit's promise was rejected.
NoAudit == [isAuditing |-> FALSE, aiReport |-> "null", pending |-> FALSE,
            outcome |-> "none", propagated |-> FALSE]

\* How a call of the audit service can end: the model answers with text, or
\* with no text, or generateContent throws, or the construction of the client
\* throws (no API key).
AuditOutcomes == {"text", "noText", "requestFails", "clientFails"}

AuditFailures == {"requestFails", "clientFails"}

\* auditSystem(nodes, edges): new GoogleGenAI(...) stands before the try block,
\* generateContent inside it.
auditSystem(outcome) ==
    CASE outcome = "text"         -> [rejects |-> FALSE, value |-> "report"]
      [] outcome = "noText"       -> [rejects |-> FALSE, value |-> "undefined"]
      [] outcome = "requestFails" -> [rejects |-> FALSE, value |-> "Audit currently unavailable."]
      [] outcome = "clientFails"  -> [rejects |-> TRUE,  value |-> "undefined"]

\* The texts stored in place of a report.
Placeholders == {"Audit currently unavailable.", "Failed to generate AI audit report.",
                 "Audit failed.", "No audit report generated."}

-----------------------------------------------------------------------------
(* The editor: handlers of the App component                               *)

MaxNodes == 2       \* node ids handed out by handleAddNode
MaxEdges == 2       \* edge ids handed out by onAddEdge / handleAddEdge

\* localStorage.getItem(SAVE_KEY) === null
NoDesign ==
    [nodes |-> << >>, edges |-> << >>, pressureDrop |-> 0, present |-> FALSE, parses |-> FALSE]

\* Values typed into the BTU field: parseInt(value) || 0.
BtuInputs == {0}

\* Values set with the length field.
LengthInputs == {10}

\* Values typed into the System Drop field: parseFloat(value) || 0.1.
PressureDropInputs == {1, 5}

\* Sizes picked in the toolbar and in the Diameter select.
SizeInputs == {"HALF", "THREE_QUARTERS"}

\* Math.random().toString(36).substr(2, 9): an id that no node, edge endpoint
\* or edge of the current graph carries (the next integer above them).
Max(S) == IF S = {} THEN 0 ELSE CHOOSE x \in S : \A y \in S : y <= x

freshNodeId ==
    1 + Max(nodeIds(nodes) \cup {edges[i].from : i \in 1..Len(edges)}
                           \cup {edges[i].to : i \in 1..Len(edges)})

freshEdgeId == 1 + Max(edgeIds(edges))

\* The app is mounted, the last render's effect has run: a handler can run.
Idle == ~effectPending /\ ~crashed

\* null, for an id.
NoId == 0

\* selectedId: ids of nodes and of edges are both integers here, so the value
\* says which of the two it names.
NoSelection == [kind |-> "none", id |-> NoId]
selNode(id) == [kind |-> "node", id |-> id]
selEdge(id) == [kind |-> "edge", id |-> id]

\* The state of a component tree mounted on an empty localStorage.
FreshSession ==
    /\ selectedId = NoSelection
    /\ selectedTool = "select"
    /\ tapPipingSource = NoId
    /\ projectName = "New Project"
    /\ currentProjectId = NoId
    /\ recentProjects = << >>
    /\ storedRecents = << >>

\* lastOp keeps the argument of the handlers whose effect on the next
\* validation is examined, and nothing of the others.
noOp(name, id) == [op |-> name, id |-> id]

OtherOp == noOp("other", 0)

\* handleAddNode(type, btu = 0, name): the toolbar passes a btu for appliances only.
handleAddNode(type, btu) ==
    /\ Idle
    /\ nodes' = Append(nodes, [id |-> freshNodeId, type |-> type, btu |-> btu])
    /\ selectedId' = selNode(freshNodeId)
    /\ effectPending' = TRUE
    /\ lastOp' = OtherOp
    /\ UNCHANGED <<build, edges, pressureDrop, selectedPipeSize, validation, crashed, saved, audit,
                   canvasVars, projectVars>>

\* App.tsx and part_001, onAddEdge={(f, t) => setEdges([...edges, {...}])}: no check.
onAddEdge(f, t) ==
    /\ Idle /\ build \in {"App", "part_001"}
    /\ edges' = Append(edges, [id |-> freshEdgeId, from |-> f, to |-> t,
                               size |-> selectedPipeSize, length |-> 10])
    /\ effectPending' = TRUE
    /\ lastOp' = OtherOp
    /\ UNCHANGED <<build, nodes, pressureDrop, selectedPipeSize, validation, crashed, saved, audit,
                   selectedId, canvasVars, projectVars>>

\* part_002, handleAddEdge(fromId, toId): the early returns of the source.
handleAddEdgeRejects(fromId, toId) ==
    \/ fromId = toId
    \/ findById(nodes, fromId) = 0
    \/ findByTo(edges, toId) # 0
    \/ /\ nodes[findById(nodes, fromId)].type = "JUNCTION"
       /\ Len(SelectSeq(edges, LAMBDA e : e.from = fromId)) >= 2
    \/ nodes[findById(nodes, fromId)].type = "APPLIANCE"

handleAddEdge(fromId, toId) ==
    /\ Idle /\ build = "part_002"
    /\ IF handleAddEdgeRejects(fromId, toId)
       THEN /\ lastOp' = OtherOp
            /\ UNCHANGED <<edges, effectPending, selectedId>>
       ELSE /\ edges' = Append(edges, [id |-> freshEdgeId, from |-> fromId, to |-> toId,
                                       size |-> selectedPipeSize, length |-> 10])
            /\ selectedId' = selEdge(freshEdgeId)
            /\ effectPending' = TRUE
            /\ lastOp' = OtherOp
    /\ UNCHANGED <<build, nodes, pressureDrop, selectedPipeSize, validation, crashed, saved, audit,
                   canvasVars, projectVars>>

\* updateNode(id, { btu: parseInt(value) || 0 }), offered for appliances.
updateNode(id, btu) ==
    /\ Idle /\ build \in {"App", "part_002"}
    /\ nodes' = [i \in 1..Len(nodes) |->
                   IF nodes[i].id = id THEN [nodes[i] EXCEPT !.btu = btu] ELSE nodes[i]]
    /\ effectPending' = TRUE
    /\ lastOp' = noOp("updateNode", id)
    /\ UNCHANGED <<build, edges, pressureDrop, selectedPipeSize, validation, crashed, saved, audit,
                   selectedId, canvasVars, projectVars>>

\* updateEdge(id, { length }) and updateEdge(id, { size }).
updateEdge(id, size, length) ==
    /\ Idle /\ build \in {"App", "part_002"}
    /\ edges' = [i \in 1..Len(edges) |->
                   IF edges[i].id = id
                   THEN [edges[i] EXCEPT !.size = size, !.length = length] ELSE edges[i]]
    /\ effectPending' = TRUE
    /\ lastOp' = OtherOp
    /\ UNCHANGED <<build, nodes, pressureDrop, selectedPipeSize, validation, crashed, saved, audit,
                   selectedId, canvasVars, projectVars>>

\* onDeleteEdge (App.tsx, part_001) and handleDeleteEdge (part_002).  App.tsx's
\* Delete button clears the selection; part_002 clears it when it is the edge.
handleDeleteEdge(id) ==
    /\ Idle
    /\ edges' = SelectSeq(edges, LAMBDA e : e.id # id)
    /\ selectedId' = CASE build = "App" -> NoSelection
                       [] build = "part_002" ->
                            IF selectedId = selEdge(id) THEN NoSelection ELSE selectedId
                       [] OTHER -> selectedId
    /\ effectPending' = TRUE
    /\ lastOp' = noOp("deleteEdge", id)
    /\ UNCHANGED <<build, nodes, pressureDrop, selectedPipeSize, validation, crashed, saved, audit,
                   canvasVars, projectVars>>

\* A handleDeleteNode that removes the node and leaves its edges.
handleDeleteNode_keepingEdges(id) ==
    /\ Idle
    /\ nodes' = SelectSeq(nodes, LAMBDA n : n.id # id)
    /\ selectedId' = NoSelection
    /\ effectPending' = TRUE
    /\ lastOp' = noOp("deleteNode", id)
    /\ UNCHANGED <<build, edges, pressureDrop, selectedPipeSize, validation, crashed, saved, audit,
                   canvasVars, projectVars>>

\* handleDeleteNode(id) / onDeleteNode: the node and every edge touching it.
handleDeleteNode(id) ==
    /\ Idle
    /\ nodes' = SelectSeq(nodes, LAMBDA n : n.id # id)
    /\ edges' = SelectSeq(edges, LAMBDA e : e.from # id /\ e.to # id)
    /\ selectedId' = CASE build = "App" -> NoSelection
                       [] build = "part_002" ->
                            IF selectedId = selNode(id) THEN NoSelection ELSE selectedId
                       [] OTHER -> selectedId
    /\ effectPending' = TRUE
    /\ lastOp' = noOp("deleteNode", id)
    /\ UNCHANGED <<build, pressureDrop, selectedPipeSize, validation, crashed, saved, audit,
                   canvasVars, projectVars>>

\* onUpdateNodes(nodes.map(...)): a drag writes a new node array in which only
\* x and y differ.
onUpdateNodes ==
    /\ Idle /\ nodes # << >>
    /\ effectPending' = TRUE
    /\ lastOp' = noOp("updateNodes", 0)
    /\ UNCHANGED <<build, nodes, edges, pressureDrop, selectedPipeSize, validation, crashed, saved, audit,
                   selectedId, canvasVars, projectVars>>

\* part_002: onChange of the System Drop field.  Setting the value the state
\* already holds renders nothing.
setPressureDrop(pd) ==
    /\ Idle /\ build = "part_002" /\ pd # pressureDrop
    /\ pressureDrop' = pd
    /\ effectPending' = TRUE
    /\ lastOp' = OtherOp
    /\ UNCHANGED <<build, nodes, edges, selectedPipeSize, validation, crashed, saved, audit,
                   selectedId, canvasVars, projectVars>>

setSelectedPipeSize(size) ==
    /\ Idle /\ size # selectedPipeSize
    /\ selectedPipeSize' = size
    /\ lastOp' = OtherOp
    /\ UNCHANGED <<build, nodes, edges, pressureDrop, validation, effectPending, crashed, saved, audit,
                   selectedId, canvasVars, projectVars>>

\* What an earlier session left in localStorage: the design handleSave wrote
\* under SAVE_KEY (part_002), the recent project under RECENTS_KEY (App.tsx,
\* part_001).
StoredDesign ==
    [nodes |-> << [id |-> 1, type |-> "METER", btu |-> 0],
                  [id |-> 2, type |-> "METER", btu |-> 0],
                  [id |-> 3, type |-> "APPLIANCE", btu |-> 65000],
                  [id |-> 4, type |-> "APPLIANCE", btu |-> 30000] >>,
     edges |-> << [id |-> 1, from |-> 1, to |-> 3, size |-> "HALF", length |-> 10],
                  [id |-> 2, from |-> 2, to |-> 4, size |-> "THREE_QUARTERS", length |-> 50] >>,
     pressureDrop |-> 1, present |-> TRUE, parses |-> TRUE]

\* part_002, handleLoad: nothing stored -> alert and return; JSON.parse throws
\* -> catch, alert; else the stored nodes and edges replace the graph as they
\* are, and the stored pressure drop when truthy.
handleLoad ==
    /\ Idle /\ build = "part_002"
    /\ IF ~saved.present \/ ~saved.parses
       THEN /\ lastOp' = OtherOp
            /\ UNCHANGED <<nodes, edges, pressureDrop, effectPending, selectedId>>
       ELSE /\ nodes' = saved.nodes
            /\ edges' = saved.edges
            /\ pressureDrop' = IF saved.pressureDrop # 0 THEN saved.pressureDrop ELSE pressureDrop
            /\ selectedId' = NoSelection
            /\ effectPending' = TRUE
            /\ lastOp' = noOp("load", 0)
    /\ UNCHANGED <<build, selectedPipeSize, validation, crashed, saved, audit,
                   canvasVars, projectVars>>

\* The entry an earlier session left in the recents list: StoredDesign, saved
\* under the default project name.
StoredProject ==
    [id |-> 1, name |-> "New Project",
     data |-> [nodes |-> StoredDesign.nodes, edges |-> StoredDesign.edges,
               pressureDrop |-> StoredDesign.pressureDrop]]

\* App.tsx and part_001, a click on a recent project of the home view: its
\* nodes, edges, pressure drop, name and id replace the state.  setView('designer')
\* mounts a new Canvas, whose pending source is null.
onLoadProject(i) ==
    /\ Idle /\ build \in {"App", "part_001"}
    /\ LET p == recentProjects[i] IN
        /\ nodes' = p.data.nodes
        /\ edges' = p.data.edges
        /\ pressureDrop' = p.data.pressureDrop
        /\ projectName' = p.name
        /\ currentProjectId' = p.id
    /\ tapPipingSource' = NoId
    /\ effectPending' = TRUE
    /\ lastOp' = OtherOp
    /\ UNCHANGED <<build, selectedPipeSize, validation, crashed, saved, audit,
                   selectedId, selectedTool, recentProjects, storedRecents>>

\* Design files a user can import (App.tsx, part_001): d.nodes || [], d.edges || [].
ImportFiles ==
    { \* two meters, each feeding its own appliance
      [nodes |-> StoredDesign.nodes, edges |-> StoredDesign.edges, parses |-> TRUE],
      \* an edge whose destination names no node
      [nodes |-> << [id |-> 1, type |-> "METER", btu |-> 0] >>,
       edges |-> << [id |-> 1, from |-> 1, to |-> 2, size |-> "HALF", length |-> 10] >>,
       parses |-> TRUE] }

\* d.nodes || [] and d.edges || []: undefined is falsy, an object is not.
orEmpty(list) == IF list \in {undefinedNodes, undefinedEdges} THEN << >> ELSE list

\* The file input's onChange (App.tsx) and handleImport (part_001).  App.tsx
\* renders the input in the home view only, so setView('designer') mounts a new
\* Canvas; part_001 renders it in the designer as well, where the Canvas stays.
\* A file that is no JSON makes JSON.parse throw: the catch leaves the state.
handleImport(d) ==
    /\ Idle /\ build \in {"App", "part_001"}
    /\ IF ~d.parses
       THEN UNCHANGED <<nodes, edges, projectName, tapPipingSource, effectPending, lastOp>>
       ELSE /\ nodes' = orEmpty(d.nodes)
            /\ edges' = orEmpty(d.edges)
            /\ projectName' = "Imported Design"
            /\ tapPipingSource' \in IF build = "App" THEN {NoId} ELSE {NoId, tapPipingSource}
            /\ effectPending' = TRUE
            /\ lastOp' = noOp("import", 0)
    /\ UNCHANGED <<build, pressureDrop, selectedPipeSize, validation, crashed, saved, audit,
                   selectedId, selectedTool, currentProjectId, recentProjects, storedRecents>>

\* handleRunAudit up to its await.  App.tsx and part_001 return when an audit
\* runs; part_002 disables the button then and on an empty canvas, and clears
\* the report.
handleRunAudit ==
    /\ Idle /\ ~audit.pending
    /\ IF build = "part_002" THEN ~audit.isAuditing /\ nodes # << >> ELSE ~audit.isAuditing
    /\ audit' = [audit EXCEPT !.isAuditing = TRUE, !.pending = TRUE,
                              !.aiReport = IF build = "part_002" THEN "null" ELSE @]
    /\ UNCHANGED <<build, nodes, edges, pressureDrop, selectedPipeSize, validation,
                   effectPending, crashed, lastOp, saved,
                   selectedId, canvasVars, projectVars>>

\* handleRunAudit from its await on, when auditSystem has ended with outcome.
\* App.tsx: try / catch / finally, report || "No audit report generated.";
\* part_001: try / catch / finally; part_002: no try.
auditSettles(outcome) ==
    /\ Idle /\ audit.pending
    /\ LET r == auditSystem(outcome) IN
        audit' =
          CASE build = "App" ->
                 [isAuditing |-> FALSE, pending |-> FALSE, outcome |-> outcome,
                  propagated |-> FALSE,
                  aiReport |-> IF r.rejects THEN "Failed to generate AI audit report."
                               ELSE IF r.value = "undefined" THEN "No audit report generated."
                               ELSE r.value]
            [] build = "part_001" ->
                 [isAuditing |-> FALSE, pending |-> FALSE, outcome |-> outcome,
                  propagated |-> FALSE,
                  aiReport |-> IF r.rejects THEN "Audit failed." ELSE r.value]
            [] build = "part_002" ->
                 IF r.rejects
                 THEN [audit EXCEPT !.pending = FALSE, !.outcome = outcome,
                                    !.propagated = TRUE]
                 ELSE [isAuditing |-> FALSE, pending |-> FALSE, outcome |-> outcome,
                       propagated |-> FALSE, aiReport |-> r.value]
    /\ UNCHANGED <<build, nodes, edges, pressureDrop, selectedPipeSize, validation,
                   effectPending, crashed, lastOp, saved,
                   selectedId, canvasVars, projectVars>>

\* The ratings the toolbar's appliance buttons pass to handleAddNode.
ToolbarBtus == {DEFAULT_APPLIANCES[2]}

Init ==
    /\ build \in Builds
    /\ nodes = << >>
    /\ edges = << >>
    /\ pressureDrop = 5
    /\ selectedPipeSize = "HALF"
    /\ validation = << >>
    /\ effectPending = TRUE
    /\ crashed = FALSE
    /\ lastOp = OtherOp
    /\ saved \in IF build = "part_002" THEN {NoDesign, StoredDesign} ELSE {NoDesign}
    /\ audit = NoAudit
    /\ selectedId = NoSelection
    /\ selectedTool = "select"
    /\ tapPipingSource = NoId
    /\ projectName = "New Project"
    /\ currentProjectId = NoId
    /\ recentProjects = IF build = "part_002" THEN << >> ELSE <<StoredProject>>
    /\ storedRecents = recentProjects

Next ==
    \/ ValidationEffect
    \/ \E type \in NodeType \ {"APPLIANCE"} :
          freshNodeId <= MaxNodes /\ handleAddNode(type, 0)
    \/ \E btu \in ToolbarBtus :
          freshNodeId <= MaxNodes /\ handleAddNode("APPLIANCE", btu)
    \/ \E f, t \in nodeIds(nodes) :
          f # t /\ freshEdgeId <= MaxEdges /\ onAddEdge(f, t)
    \/ \E f, t \in nodeIds(nodes) :
          f # t /\ freshEdgeId <= MaxEdges /\ handleAddEdge(f, t)
    \/ \E i \in 1..Len(nodes), btu \in BtuInputs :
          nodes[i].type = "APPLIANCE" /\ updateNode(nodes[i].id, btu)
    \/ \E i \in 1..Len(edges), length \in LengthInputs :
          updateEdge(edges[i].id, edges[i].size, length)
    \/ \E i \in 1..Len(edges), size \in SizeInputs :
          updateEdge(edges[i].id, size, edges[i].length)
    \/ \E i \in 1..Len(edges) : handleDeleteEdge(edges[i].id)
    \/ \E i \in 1..Len(nodes) : handleDeleteNode(nodes[i].id)
    \/ onUpdateNodes
    \/ \E pd \in PressureDropInputs : setPressureDrop(pd)
    \/ \E size \in SizeInputs : setSelectedPipeSize(size)
    \/ handleLoad
    \/ \E i \in 1..Len(recentProjects) : onLoadProject(i)
    \/ \E d \in ImportFiles : handleImport(d)

Spec == Init /\ [][Next]_vars


-----------------------------------------------------------------------------
(* The pressure session: System Drop entries and project loads             *)

\* What can be in the System Drop field when onChange fires: emptied, "0",
\* and numbers with and without a sign.
TypedEntries == {"", "0", "0.1", "0.5", "1", "-1"}

\* parseFloat(e.target.value), in tenths; NaN for text that starts no number.
parseFloat(text) ==
    CASE text = "0"   -> 0
      [] text = "0.1" -> 1
      [] text = "0.5" -> 5
      [] text = "1"   -> 10
      [] text = "-1"  -> 0 - 10
      [] OTHER        -> NaN

\* parseFloat(e.target.value) || 0.1: NaN and 0 are falsy.
orDefault(v) == IF v = NaN \/ v = 0 THEN 1 ELSE v

NextPressure ==
    \/ ValidationEffect
    \/ \E text \in TypedEntries : setPressureDrop(orDefault(parseFloat(text)))
    \/ handleLoad
    \/ \E i \in 1..Len(recentProjects) : onLoadProject(i)
    \/ \E i \in 1..Len(edges), size \in SizeInputs :
          updateEdge(edges[i].id, size, edges[i].length)
    \/ \E i \in 1..Len(edges) : handleDeleteEdge(edges[i].id)
    \/ \E size \in SizeInputs : setSelectedPipeSize(size)

SpecPressure == Init /\ [][NextPressure]_vars

-----------------------------------------------------------------------------
(* The audit session: audits run between edits                             *)

NextAudit ==
    \/ ValidationEffect
    \/ handleRunAudit
    \/ \E outcome \in AuditOutcomes : auditSettles(outcome)
    \/ freshNodeId <= MaxNodes /\ handleAddNode("METER", 0)
    \/ handleLoad
    \/ \E i \in 1..Len(recentProjects) : onLoadProject(i)
    \/ \E i \in 1..Len(edges), size \in SizeInputs :
          updateEdge(edges[i].id, size, edges[i].length)
    \/ \E i \in 1..Len(edges) : handleDeleteEdge(edges[i].id)

SpecAudit == Init /\ [][NextAudit]_vars

-----------------------------------------------------------------------------
(* The piping session: a graph drawn from the empty canvas                 *)

MaxFittings == 3    \* node ids handed out in a piping session
MaxPipes == 3       \* edge ids handed out in a piping session

\* The fittings placed in a piping session.
PipingTypes == {"METER", "JUNCTION", "APPLIANCE"}

InitPiping ==
    /\ build \in Builds
    /\ nodes = << >>
    /\ edges = << >>
    /\ pressureDrop = 5
    /\ selectedPipeSize = "HALF"
    /\ validation = << >>
    /\ effectPending = TRUE
    /\ crashed = FALSE
    /\ lastOp = OtherOp
    /\ saved = NoDesign
    /\ audit = NoAudit
    /\ FreshSession

NextPiping ==
    \/ ValidationEffect
    \/ \E type \in PipingTypes :
          /\ freshNodeId <= MaxFittings
          /\ handleAddNode(type, IF type = "APPLIANCE" THEN DEFAULT_APPLIANCES[2] ELSE 0)
    \/ \E f, t \in nodeIds(nodes) :
          f # t /\ freshEdgeId <= MaxPipes /\ onAddEdge(f, t)
    \/ \E f, t \in nodeIds(nodes) :
          f # t /\ freshEdgeId <= MaxPipes /\ handleAddEdge(f, t)
    \/ \E i \in 1..Len(edges), size \in SizeInputs :
          updateEdge(edges[i].id, size, edges[i].length)
    \/ \E i \in 1..Len(edges) : handleDeleteEdge(edges[i].id)
    \/ \E i \in 1..Len(nodes) : handleDeleteNode(nodes[i].id)

SpecPiping == InitPiping /\ [][NextPiping]_vars

-----------------------------------------------------------------------------
(* Validation of arbitrary snapshots                                       *)
(*                                                                         *)
(* SpecValidate runs one validation pass on every snapshot of a bounded    *)
(* family: well-formed forests as well as what a design file or a stored   *)
(* project can hold (dangling endpoints, several feeders, cycles).         *)

NV == 4             \* node ids 1..NV
MaxE == 3           \* at most MaxE edges in a snapshot

\* What node i can be in a snapshot: a source or fitting without demand, or an
\* appliance with one of the toolbar's ratings.
NodeKinds(i) ==
    { [id |-> i, type |-> (IF i <= 2 THEN "METER" ELSE "JUNCTION"), btu |-> 0],
      [id |-> i, type |-> "APPLIANCE", btu |-> DEFAULT_APPLIANCES[((i - 1) % Len(DEFAULT_APPLIANCES)) + 1]] }

\* Node lists: nodes 1..n in order, n <= NV (an id above n names no node).
NodeLists ==
    UNION { { [i \in 1..n |-> k[i]] : k \in { f \in [1..n -> UNION {NodeKinds(i) : i \in 1..n}] :
                                                \A i \in 1..n : f[i] \in NodeKinds(i) } }
            : n \in 0..NV }

SnapshotSizes == {"HALF", "THREE_QUARTERS"}

\* Endpoint pairs, coded f * (NV + 1) + t, without self-loops.
PairCodes == { f * (NV + 1) + t : f \in 1..NV, t \in 1..NV } \ { f * (NV + 1) + f : f \in 1..NV }

RECURSIVE SortedSeq(_)
SortedSeq(S) ==
    IF S = {} THEN << >>
    ELSE LET m == CHOOSE x \in S : \A y \in S : x <= y
         IN  <<m>> \o SortedSeq(S \ {m})

\* Edge lists: up to MaxE edges over distinct endpoint pairs, ids 1..k, the
\* toolbar's default length, any of the snapshot sizes.
EdgeLists ==
    UNION { { LET codes == SortedSeq(S)
              IN  [i \in 1..Len(codes) |->
                     [id |-> i, from |-> codes[i] \div (NV + 1), to |-> codes[i] % (NV + 1),
                      size |-> sz[codes[i]], length |-> 10]]
              : sz \in [S -> SnapshotSizes] }
            : S \in { T \in SUBSET PairCodes : Cardinality(T) <= MaxE } }

InitValidate ==
    /\ build \in Builds
    /\ nodes \in NodeLists
    /\ edges \in EdgeLists
    /\ pressureDrop = 5
    /\ selectedPipeSize = "HALF"
    /\ validation = << >>
    /\ effectPending = TRUE
    /\ crashed = FALSE
    /\ lastOp = [op |-> "load", id |-> 0]
    /\ saved = NoDesign
    /\ audit = NoAudit
    /\ FreshSession

NextValidate == ValidationEffect

SpecValidate == InitValidate /\ [][NextValidate]_vars

-----------------------------------------------------------------------------
(* Validation of two pipes of arbitrary size and length                    *)

\* Lengths an edge of a design file can carry, 0 and a negative one included.
CapacityLengths == Lengths \cup {0, 0 - 5}

\* Sizes an edge of a design file can carry, one with no entry in PIPE_SPECS
\* included.
CapacitySizes == PipeSize \cup {"UNKNOWN"}

\* A meter feeding two appliances through one pipe each.
InitCapacity ==
    /\ build \in Builds
    /\ nodes = << [id |-> 1, type |-> "METER", btu |-> 0],
                  [id |-> 2, type |-> "APPLIANCE", btu |-> DEFAULT_APPLIANCES[2]],
                  [id |-> 3, type |-> "APPLIANCE", btu |-> DEFAULT_APPLIANCES[2]] >>
    /\ \E s1, s2 \in CapacitySizes, l1, l2 \in CapacityLengths :
          edges = << [id |-> 1, from |-> 1, to |-> 2, size |-> s1, length |-> l1],
                     [id |-> 2, from |-> 1, to |-> 3, size |-> s2, length |-> l2] >>
    /\ pressureDrop \in PressureDrops \cup
                         (IF build = "part_002" THEN TypedPressureDrops ELSE {})
    /\ selectedPipeSize = "HALF"
    /\ validation = << >>
    /\ effectPending = TRUE
    /\ crashed = FALSE
    /\ lastOp = [op |-> "other", id |-> 0]
    /\ saved = NoDesign
    /\ audit = NoAudit
    /\ FreshSession

NextCapacity == ValidationEffect

SpecCapacity == InitCapacity /\ [][NextCapacity]_vars

-----------------------------------------------------------------------------
(* Properties of one validation pass                                       *)

\* The pass has run and has stored its result.
Validated == ~effectPending /\ ~crashed

\* The nodes reachable from the nodes of S along edges, S included.
RECURSIVE ReachableFrom(_, _)
ReachableFrom(es, S) ==
    LET T == S \cup {es[i].to : i \in {j \in 1..Len(es) : es[j].from \in S}}
    IN  IF T = S THEN S ELSE ReachableFrom(es, T)

HasCycle(es) ==
    \E i \in 1..Len(es) : es[i].from \in ReachableFrom(es, {es[i].to})

\* A forest: distinct ids, both endpoints of every edge are nodes, at most one
\* inbound edge per node, no directed cycle.
IsForest(ns, es) ==
    /\ \A i, j \in 1..Len(ns) : ns[i].id = ns[j].id => i = j
    /\ \A i, j \in 1..Len(es) : es[i].id = es[j].id => i = j
    /\ \A i \in 1..Len(es) : es[i].from \in nodeIds(ns) /\ es[i].to \in nodeIds(ns)
    /\ \A i, j \in 1..Len(es) : es[i].to = es[j].to => i = j
    /\ ~HasCycle(es)

RECURSIVE SumOver(_, _)
SumOver(f, S) ==
    IF S = {} THEN 0
    ELSE LET x == CHOOSE y \in S : TRUE IN f[x] + SumOver(f, S \ {x})

\* The appliance demand of node position i (0 for every other type).
ownDemand(ns) == [i \in 1..Len(ns) |-> IF ns[i].type = "APPLIANCE" THEN ns[i].btu ELSE 0]

\* Total btu of the APPLIANCE nodes in the subtree rooted at node id root.
SubtreeDemand(ns, es, root) ==
    SumOver(ownDemand(ns), {i \in 1..Len(ns) : ns[i].id \in ReachableFrom(es, {root})})

\* The stored flows of the edges that leave node id n, by edge position.
childFlows(es, val, n) == [i \in 1..Len(es) |-> IF es[i].from = n THEN val[es[i].id].flow ELSE 0]

\* C1: in a forest, the flow stored for every edge E is the appliance demand of
\* E's destination plus the flows of the edges leaving that destination, which
\* is the total btu of the appliances in the subtree under E's destination.
C1_FlowIsSubtreeDemand ==
    (Validated /\ IsForest(nodes, edges)) =>
        \A i \in 1..Len(edges) :
            LET E == edges[i]
                d == findById(nodes, E.to)
            IN  /\ validation[E.id].flow = SubtreeDemand(nodes, edges, E.to)
                /\ validation[E.id].flow =
                       ownDemand(nodes)[d] + SumOver(childFlows(edges, validation, E.to), 1..Len(edges))

\* C1 witness: a validated forest in which an edge feeds two branches with
\* positive demand and carries their sum, a leaf appliance edge carries the
\* appliance's btu, and another state's edge carries nothing.
C1_Witness ==
    /\ Validated /\ IsForest(nodes, edges)
    /\ \E i, j, k \in 1..Len(edges) :
          /\ j # k
          /\ edges[j].from = edges[i].to /\ edges[k].from = edges[i].to
          /\ validation[edges[j].id].flow > 0 /\ validation[edges[k].id].flow > 0
          /\ validation[edges[i].id].flow =
                 validation[edges[j].id].flow + validation[edges[k].id].flow
          /\ nodes[findById(nodes, edges[j].to)].type = "APPLIANCE"
          /\ validation[edges[j].id].flow = nodes[findById(nodes, edges[j].to)].btu

\* The edge's size rank is above the size rank of its upstream feeder (the
\* first edge that ends where the edge starts), when there is one.
LargerThanFeeder(es, i) ==
    LET f == findByTo(es, es[i].from)
    IN  f # 0 /\ indexOf(PIPE_ORDER, es[i].size) > indexOf(PIPE_ORDER, es[f].size)

\* C2: every verdict is valid iff the flow is within the capacity and the edge
\* is not larger than its upstream feeder.  Stated on forests, where the feeder
\* of an edge is unique.
C2_ValidIffBothChecksPass ==
    (Validated /\ IsForest(nodes, edges)) =>
        \A i \in 1..Len(edges) :
            LET v == validation[edges[i].id]
            IN  v.isValid <=> (v.flow <= v.capacity /\ ~LargerThanFeeder(edges, i))

\* C3: a branch whose size rank is above its feeder's is marked invalid,
\* whatever its flow and capacity.  Stated on forests, where the feeder of an
\* edge is unique.
C3_LargerBranchInvalid ==
    (Validated /\ IsForest(nodes, edges)) =>
        \A i \in 1..Len(edges) :
            LargerThanFeeder(edges, i) => ~validation[edges[i].id].isValid

\* C4: a pass never raises, and the stored map has exactly the input's edge ids
\* as keys.
C4_CompleteVerdictMap ==
    ~effectPending => (~crashed /\ DOMAIN validation = edgeIds(edges))

\* C5: a pass over a graph with a directed cycle still ends with a verdict map.
C5_CycleGuard ==
    (~effectPending /\ HasCycle(edges)) => (~crashed /\ DOMAIN validation = edgeIds(edges))

-----------------------------------------------------------------------------
(* Properties of the editor                                                *)

\* The validation pass that a handler's state change triggers: the step from
\* the render of the new state to the stored result.
EffectStep == effectPending /\ ~effectPending'

\* C6: once the effect a change triggers has run, the stored map is the full
\* validation of the current nodes, edges and pressureDrop.
C6_StoredMapIsCurrentValidation ==
    ~effectPending =>
        /\ ~crashed
        /\ validation = validate(build, nodes, edges, pressureDrop).results

\* What C6 says of the states whose pass has stored a result (no cycle).
C6_OnCompletedPass ==
    Validated => validation = validate(build, nodes, edges, pressureDrop).results

\* C7: the validation that follows the deletion of an edge stores a map whose
\* key set is the old key set minus the deleted edge's id.
C7_DeleteEdgeRemovesExactlyItsEntry ==
    [][(EffectStep /\ lastOp.op = "deleteEdge") =>
          /\ ~crashed'
          /\ lastOp.id \in DOMAIN validation
          /\ DOMAIN validation' = DOMAIN validation \ {lastOp.id}]_vars

\* C7 witness: an edge has been deleted while another one stays, and the map
\* of the previous pass still holds the deleted edge's entry.
C7_Witness ==
    /\ effectPending /\ lastOp.op = "deleteEdge"
    /\ edges # << >>
    /\ lastOp.id \in DOMAIN validation
    /\ lastOp.id \notin edgeIds(edges)

\* C8: a pass over a snapshot that has not changed since the previous pass
\* (a drag changes positions only) stores the map the previous pass stored.
C8_SecondPassSameMap ==
    [][(EffectStep /\ lastOp.op = "updateNodes") =>
          (~crashed' /\ validation' = validation)]_vars

\* C8 witness: a second pass is due on an unchanged snapshot whose stored map
\* has verdicts with demand in them.
C8_Witness ==
    /\ effectPending /\ lastOp.op = "updateNodes"
    /\ \E id \in DOMAIN validation : validation[id].flow > 0
    /\ DOMAIN validation = edgeIds(edges)

\* C9: a validation pass writes the validation map only; nodes, edges (ids,
\* from, to, size, length), every btu and pressureDrop are as before.
C9_PassLeavesGraphUnchanged ==
    [][EffectStep =>
          /\ nodes' = nodes
          /\ edges' = edges
          /\ pressureDrop' = pressureDrop
          /\ selectedPipeSize' = selectedPipeSize
          /\ saved' = saved]_vars

\* C9 witness: a pass has run over a graph that has an edge to a node that is
\* missing and an edge to an appliance, and has stored a verdict for both.
C9_Witness ==
    /\ Validated
    /\ \E i, j \in 1..Len(edges) :
          /\ findById(nodes, edges[i].to) = 0
          /\ findById(nodes, edges[j].to) # 0
          /\ nodes[findById(nodes, edges[j].to)].type = "APPLIANCE"
          /\ validation[edges[j].id].flow > 0
    /\ DOMAIN validation = edgeIds(edges)

\* The ids of the meters of the network.
Meters(ns) == {ns[i].id : i \in {j \in 1..Len(ns) : ns[j].type = "METER"}}

\* Meters a and b feed subtrees with no node in common (hence no edge).
DisjointSubtrees(es, a, b) ==
    ReachableFrom(es, {a}) \cap ReachableFrom(es, {b}) = {}

\* C10: with two meters feeding disjoint subtrees, the pass that follows a
\* btu change in one meter's subtree stores, for every edge of the other
\* meter's subtree, the verdict it had.
C10_OtherMeterVerdictsUnchanged ==
    [][(EffectStep /\ lastOp.op = "updateNode") =>
          \A a, b \in Meters(nodes) :
              (a # b /\ DisjointSubtrees(edges, a, b)
                     /\ lastOp.id \in ReachableFrom(edges, {a})) =>
                  \A i \in 1..Len(edges) :
                      edges[i].from \in ReachableFrom(edges, {b}) =>
                          /\ edges[i].id \in DOMAIN validation
                          /\ edges[i].id \in DOMAIN validation'
                          /\ validation'[edges[i].id] = validation[edges[i].id]]_vars

\* C10 witness: the btu of an appliance fed by one meter has changed, so that
\* the stored flow of its edge is out of date, and the other meter feeds an
\* appliance with demand through an edge of its own.
C10_Witness ==
    /\ effectPending /\ lastOp.op = "updateNode"
    /\ \E a, b \in Meters(nodes) :
          /\ a # b /\ DisjointSubtrees(edges, a, b)
          /\ lastOp.id \in ReachableFrom(edges, {a}) \ {a}
          /\ \E i, j \in 1..Len(edges) :
                /\ edges[i].to = lastOp.id
                /\ validation[edges[i].id].flow # nodes[findById(nodes, lastOp.id)].btu
                /\ edges[j].from \in ReachableFrom(edges, {b})
                /\ validation[edges[j].id].flow > 0

-----------------------------------------------------------------------------
(* Properties of the capacity model                                        *)

\* The edge at position i has a length <= 0 or a size PIPE_SPECS lacks.
Degenerate(es, i) == es[i].length <= 0 \/ es[i].size \notin PipeSize

\* C11: the pass does not raise, and an edge with a length <= 0 or an unknown
\* size is stored with capacity 0, hence invalid whenever its flow is positive.
C11_DegenerateCapacityIsZero ==
    ~effectPending =>
        /\ ~crashed
        /\ \A i \in 1..Len(edges) :
              Degenerate(edges, i) =>
                  /\ validation[edges[i].id].capacity = 0
                  /\ validation[edges[i].id].flow > 0 => ~validation[edges[i].id].isValid

\* C18: of two edges with a known size and a positive length, validated under
\* one pressure drop, the longer of equal size has no more capacity and the
\* larger (in PIPE_ORDER) of equal length has no less.
C18_CapacityMonotone ==
    Validated =>
        \A i, j \in 1..Len(edges) :
            (~Degenerate(edges, i) /\ ~Degenerate(edges, j)) =>
                LET ci == validation[edges[i].id].capacity
                    cj == validation[edges[j].id].capacity
                IN  /\ (edges[i].size = edges[j].size /\ edges[i].length <= edges[j].length)
                           => ci >= cj
                    /\ (edges[i].length = edges[j].length
                         /\ indexOf(PIPE_ORDER, edges[i].size) <= indexOf(PIPE_ORDER, edges[j].size))
                           => ci <= cj

\* The half of C18 that is about length.
C18_NonIncreasingInLength ==
    Validated =>
        \A i, j \in 1..Len(edges) :
            (~Degenerate(edges, i) /\ ~Degenerate(edges, j)
               /\ edges[i].size = edges[j].size /\ edges[i].length <= edges[j].length)
            => validation[edges[i].id].capacity >= validation[edges[j].id].capacity

-----------------------------------------------------------------------------
(* Properties of malformed graphs                                          *)

\* The edge at position i ends at a node that is not in ns.
Dangling(ns, es, i) == findById(ns, es[i].to) = 0

\* The edges whose destination exists, in order.
WithoutDangling(ns, es) == SelectSeq(es, LAMBDA e : findById(ns, e.to) # 0)

\* C12: an edge whose destination names no node is stored with flow 0, and
\* every other edge is stored with the flow and capacity it has in the graph
\* without the dangling edges.
C12_DanglingEdgeCarriesNothing ==
    Validated =>
        \A i \in 1..Len(edges) :
            /\ edges[i].id \in DOMAIN validation
            /\ IF Dangling(nodes, edges, i)
               THEN validation[edges[i].id].flow = 0
               ELSE /\ validation[edges[i].id].flow =
                           getFlow(nodes, WithoutDangling(nodes, edges), edges[i].id, 1)
                    /\ validation[edges[i].id].capacity =
                           validate(build, nodes, WithoutDangling(nodes, edges),
                                    pressureDrop).results[edges[i].id].capacity

\* C12 witness: a validated graph where an edge with positive demand feeds a
\* node from which a dangling edge leaves.
C12_Witness ==
    /\ Validated
    /\ \E i, j \in 1..Len(edges) :
          /\ Dangling(nodes, edges, i)
          /\ ~Dangling(nodes, edges, j)
          /\ edges[j].to = edges[i].from
          /\ validation[edges[j].id].flow > 0
          /\ validation[edges[i].id].flow = 0

-----------------------------------------------------------------------------
(* Properties of the piping session                                        *)

\* The type of the node with this id, "NONE" when no node has it.
typeOf(ns, id) == IF findById(ns, id) = 0 THEN "NONE" ELSE ns[findById(ns, id)].type

\* C13: an edge that leaves a METER undergoes the capacity check only: it is
\* valid iff flow <= capacity, and carries no sizing message.
C13_MeterEdgeCapacityCheckOnly ==
    Validated =>
        \A i \in 1..Len(edges) :
            typeOf(nodes, edges[i].from) = "METER" =>
                LET v == validation[edges[i].id] IN
                    /\ v.isValid <=> (v.flow <= v.capacity)
                    /\ \A k \in 1..Len(v.error) : v.error[k] # "sizing"

\* The positions of the edges that end at, and that leave, the node id.
inbound(es, id) == {i \in 1..Len(es) : es[i].to = id}

outbound(es, id) == {i \in 1..Len(es) : es[i].from = id}

\* C14: every node has at most one inbound edge.
C14_SingleInboundEdge ==
    \A n \in nodeIds(nodes) : Cardinality(inbound(edges, n)) <= 1

\* C15: no APPLIANCE node has an outbound edge.
C15_ApplianceIsSink ==
    \A i \in 1..Len(edges) : typeOf(nodes, edges[i].from) # "APPLIANCE"

\* C16: every JUNCTION node has at most 2 outbound edges.
C16_JunctionTwoOutbound ==
    \A n \in nodeIds(nodes) :
        typeOf(nodes, n) = "JUNCTION" => Cardinality(outbound(edges, n)) <= 2

\* C17: the edge set has no self-loop and no directed cycle.
C17_NoCycle ==
    /\ \A i \in 1..Len(edges) : edges[i].from # edges[i].to
    /\ ~HasCycle(edges)

-----------------------------------------------------------------------------
(* Properties of the pressure session                                      *)

\* C19: the system pressure drop is positive in every reachable state.
C19_PressureDropPositive == pressureDrop > 0

-----------------------------------------------------------------------------
(* Properties of the audit                                                 *)

\* C20: when the audit service has failed, the report is a placeholder text
\* and no exception has left handleRunAudit.
C20_FailedAuditStoresPlaceholder ==
    (~audit.pending /\ audit.outcome \in AuditFailures) =>
        (audit.aiReport \in Placeholders /\ ~audit.propagated)

\* The frame half of C20: an audit step, started or settled, successful or
\* failed, leaves nodes, edges, pressureDrop and the validation map unchanged.
C20_AuditLeavesDesignUnchanged ==
    [][audit' # audit =>
          UNCHANGED <<nodes, edges, pressureDrop, validation>>]_vars

\* The message the two checks of an edge call for: the capacity tag when the
\* flow exceeds the capacity, then the sizing tag when the edge is larger than
\* its feeder.
expectedError(es, i, v) ==
    (IF v.flow > v.capacity THEN <<"capacity">> ELSE <<>>)
        \o (IF LargerThanFeeder(es, i) THEN <<"sizing">> ELSE <<>>)

\* C21: every verdict's error names exactly the failed checks, capacity first
\* and sizing second, and is absent when none failed; so an error is present
\* exactly on the invalid edges.  Stated on forests, where the feeder of an
\* edge is unique.
C21_ErrorReflectsFailedChecks ==
    (Validated /\ IsForest(nodes, edges)) =>
        \A i \in 1..Len(edges) :
            LET v == validation[edges[i].id]
            IN  /\ v.error = expectedError(edges, i, v)
                /\ (v.error # NoError) <=> ~v.isValid

-----------------------------------------------------------------------------
(* The entry session: values typed into the BTU and length fields          *)

\* What can be in a number field when onChange fires: emptied, "0", a
\* positive number, a number with a minus sign, and text that is no number.
BtuEntries == {"", "0", "65000", "-5000", "e"}
LengthEntries == {"", "0", "50", "-50", "e"}

\* parseInt(e.target.value); NaN for text that starts no number.
parseInt(text) ==
    CASE text = "0"     -> 0
      [] text = "50"    -> 50
      [] text = "-50"   -> 0 - 50
      [] text = "65000" -> 65000
      [] text = "-5000" -> 0 - 5000
      [] OTHER          -> NaN

\* parseInt(e.target.value) || 0: NaN and 0 are falsy.
orZero(v) == IF v = NaN \/ v = 0 THEN 0 ELSE v

\* parseInt(e.target.value) || 1: NaN and 0 are falsy.
orOne(v) == IF v = NaN \/ v = 0 THEN 1 ELSE v

\* The positions of part_002's length slider (min 1, max 250, step 1).
RangeValues == {1, 100, 250}

NextEntries ==
    \/ ValidationEffect
    \/ \E type \in PipingTypes :
          /\ freshNodeId <= MaxNodes
          /\ handleAddNode(type, IF type = "APPLIANCE" THEN DEFAULT_APPLIANCES[2] ELSE 0)
    \/ \E f, t \in nodeIds(nodes) :
          f # t /\ freshEdgeId <= MaxEdges /\ onAddEdge(f, t)
    \/ \E f, t \in nodeIds(nodes) :
          f # t /\ freshEdgeId <= MaxEdges /\ handleAddEdge(f, t)
    \/ \E i \in 1..Len(nodes), text \in BtuEntries :
          /\ nodes[i].type = "APPLIANCE"
          /\ updateNode(nodes[i].id, orZero(parseInt(text)))
    \/ \E i \in 1..Len(edges), text \in LengthEntries :
          /\ build = "App"
          /\ updateEdge(edges[i].id, edges[i].size, orOne(parseInt(text)))
    \/ \E i \in 1..Len(edges), value \in RangeValues :
          /\ build = "part_002"
          /\ updateEdge(edges[i].id, edges[i].size, value)
    \/ \E i \in 1..Len(edges) : handleDeleteEdge(edges[i].id)
    \/ \E i \in 1..Len(nodes) : handleDeleteNode(nodes[i].id)

SpecEntries == InitPiping /\ [][NextEntries]_vars

\* C22: every node's btu is non-negative, and is 0 on every node that is not
\* an appliance.
C22_BtuNonNegative ==
    \A i \in 1..Len(nodes) :
        /\ nodes[i].btu >= 0
        /\ nodes[i].type # "APPLIANCE" => nodes[i].btu = 0

\* C23: every edge's length is strictly positive, whatever was typed into the
\* length field.
C23_LengthPositive ==
    \A i \in 1..Len(edges) : edges[i].length > 0

-----------------------------------------------------------------------------
(* The canvas session: taps on the Canvas of App.tsx and part_001          *)
(*                                                                         *)
(* App.tsx and part_001 render the Canvas of src/unnamed/part_002 lines    *)
(* 728-1092 (it takes their pressureDrop, onEdit and isMobile props), with *)
(* the two-tap piping protocol.  part_002's own App renders the Canvas of  *)
(* lines 483-725, which passes the two nodes of a drag to handleAddEdge.   *)

MaxTapNodes == 3    \* node ids handed out in a canvas session
MaxTapEdges == 2    \* edge ids handed out in a canvas session

\* The fittings placed in a canvas session.
TapTypes == {"METER", "APPLIANCE"}

\* setSelectedTool(tool), and the Canvas effect on [selectedTool]: the select
\* tool resets the pending source.
setSelectedTool(tool) ==
    /\ Idle /\ tool # selectedTool
    /\ selectedTool' = tool
    /\ tapPipingSource' = IF tool = "select" THEN NoId ELSE tapPipingSource
    /\ UNCHANGED <<build, nodes, edges, pressureDrop, selectedPipeSize, validation,
                   effectPending, crashed, lastOp, saved, audit, selectedId, projectVars>>

\* Canvas.handleInteractionEnd(e, id, isNode): the end of a tap or drag on the
\* node or pipe id.  With the pipe tool the first tap on a node makes it the
\* pending source, a tap on the pending source without movement clears it, and
\* a tap on another node calls onAddEdge(tapPipingSource, targetId) and clears
\* it.  With the select tool a tap selects.
handleInteractionEnd(id, isNode, hasMovedSignificant) ==
    /\ Idle /\ build \in {"App", "part_001"}
    /\ IF selectedTool = "pipe"
       THEN LET isTargetNode == isNode /\ findById(nodes, id) # 0 IN
            CASE isTargetNode /\ tapPipingSource = NoId ->
                   /\ tapPipingSource' = id
                   /\ selectedId' = NoSelection
                   /\ UNCHANGED <<edges, effectPending, lastOp>>
              [] isTargetNode /\ tapPipingSource = id /\ ~hasMovedSignificant ->
                   /\ tapPipingSource' = NoId
                   /\ UNCHANGED <<edges, effectPending, lastOp, selectedId>>
              [] isTargetNode /\ tapPipingSource # NoId /\ tapPipingSource # id ->
                   /\ edges' = Append(edges, [id |-> freshEdgeId, from |-> tapPipingSource,
                                              to |-> id, size |-> selectedPipeSize,
                                              length |-> 10])
                   /\ tapPipingSource' = NoId
                   /\ effectPending' = TRUE
                   /\ lastOp' = noOp("onAddEdge", id)
                   /\ UNCHANGED selectedId
              [] OTHER ->
                   UNCHANGED <<edges, effectPending, lastOp, selectedId, tapPipingSource>>
       ELSE /\ selectedId' = IF hasMovedSignificant THEN selectedId
                             ELSE IF isNode THEN selNode(id) ELSE selEdge(id)
            /\ UNCHANGED <<edges, effectPending, lastOp, tapPipingSource>>
    /\ UNCHANGED <<build, nodes, pressureDrop, selectedPipeSize, validation, crashed,
                   saved, audit, selectedTool, projectVars>>

\* Canvas.handleBackgroundAction: a tap on the background.
handleBackgroundAction ==
    /\ Idle /\ build \in {"App", "part_001"}
    /\ selectedId' = IF selectedTool = "select" THEN NoSelection ELSE selectedId
    /\ tapPipingSource' = NoId
    /\ UNCHANGED <<build, nodes, edges, pressureDrop, selectedPipeSize, validation,
                   effectPending, crashed, lastOp, saved, audit, selectedTool, projectVars>>

\* The node the delete controls act on.  Canvas (part_002 line 1011): the
\* selected node, with the select tool; App.tsx's Delete button: the selected
\* node.  part_002's controls are taken to reach every node.
deletableNode(id) ==
    /\ selectedId = selNode(id)
    /\ build = "part_001" => selectedTool = "select"

NextCanvas ==
    \/ ValidationEffect
    \/ \E type \in TapTypes :
          /\ freshNodeId <= MaxTapNodes
          /\ handleAddNode(type, IF type = "APPLIANCE" THEN DEFAULT_APPLIANCES[2] ELSE 0)
    \/ \E tool \in {"pipe", "select"} : setSelectedTool(tool)
    \/ \E i \in 1..Len(nodes), hasMovedSignificant \in BOOLEAN :
          /\ selectedTool = "pipe" => freshEdgeId <= MaxTapEdges
          /\ handleInteractionEnd(nodes[i].id, TRUE, hasMovedSignificant)
    \/ \E i \in 1..Len(edges) : handleInteractionEnd(edges[i].id, FALSE, FALSE)
    \/ handleBackgroundAction
    \/ \E f, t \in nodeIds(nodes) :
          f # t /\ freshEdgeId <= MaxTapEdges /\ handleAddEdge(f, t)
    \/ \E i \in 1..Len(edges) :
          /\ build = "part_002" \/ selectedId = selEdge(edges[i].id)
          /\ build # "part_001"
          /\ handleDeleteEdge(edges[i].id)
    \/ \E i \in 1..Len(nodes) :
          /\ build = "part_002" \/ deletableNode(nodes[i].id)
          /\ handleDeleteNode(nodes[i].id)

SpecCanvas == InitPiping /\ [][NextCanvas]_vars

\* Every edge's two endpoints are ids of nodes.
NoDanglingEdge ==
    \A i \in 1..Len(edges) :
        edges[i].from \in nodeIds(nodes) /\ edges[i].to \in nodeIds(nodes)

\* A step of handleDeleteNode(id): id leaves the node list.
DeletesNode(id) == id \in nodeIds(nodes) /\ id \notin nodeIds(nodes')

\* C24: in a graph drawn from the empty canvas with addNode, addEdge, deleteEdge
\* and deleteNode no edge dangles, and deleteNode(id) removes the node, removes
\* exactly the edges that touch it, and leaves the other nodes and edges as
\* they were.
C24_NoDanglingEdge ==
    /\ []NoDanglingEdge
    /\ [][\A id \in nodeIds(nodes) :
             DeletesNode(id) =>
                 /\ nodes' = SelectSeq(nodes, LAMBDA n : n.id # id)
                 /\ edges' = SelectSeq(edges, LAMBDA e : e.from # id /\ e.to # id)]_vars

\* A node with a pipe on it was deleted while another pipe stays.
C24_Witness ==
    /\ lastOp.op = "deleteNode"
    /\ Len(edges) = 1 /\ Len(nodes) = 2
    /\ freshEdgeId = 3

\* C25: after a completed pass on a graph drawn from the empty canvas, the flow
\* of an edge is never above the flow of an edge that ends where it starts, and
\* the flows of the edges leaving a meter add up to the total btu of the
\* appliances reachable from that meter.
C25_FlowConservation ==
    Validated =>
        /\ \A i, j \in 1..Len(edges) :
              edges[j].to = edges[i].from =>
                  validation[edges[j].id].flow >= validation[edges[i].id].flow
        /\ \A m \in Meters(nodes) :
              SumSeq(childFlows(edges, validation, m)) = SubtreeDemand(nodes, edges, m)

-----------------------------------------------------------------------------
(* The canvas session with design files: part_001's designer has a Load    *)
(* button (line 195) on the file input, next to the mounted Canvas.        *)

NextCanvasLoad ==
    \/ NextCanvas
    \/ \E d \in ImportFiles : handleImport(d)

SpecCanvasLoad == InitPiping /\ [][NextCanvasLoad]_vars

\* A step in which the two-tap protocol calls onAddEdge.
CallsOnAddEdge == lastOp'.op = "onAddEdge" /\ lastOp.op # "onAddEdge"

\* C26: the protocol calls onAddEdge only with two distinct ids of existing
\* nodes, the first being the pending source, and the call clears the pending
\* source; a tap on the pending source, a tap on the background and a switch to
\* the select tool clear the pending source and add no edge.
C26_TapTapProtocol ==
    [][/\ CallsOnAddEdge =>
            LET e == edges'[Len(edges')] IN
                /\ e.from \in nodeIds(nodes) /\ e.to \in nodeIds(nodes)
                /\ e.from # e.to
                /\ e.from = tapPipingSource /\ e.to = lastOp'.id
                /\ tapPipingSource' = NoId
       /\ (/\ tapPipingSource # NoId /\ tapPipingSource' = NoId
           /\ lastOp'.op \notin {"onAddEdge", "import"}) => edges' = edges]_vars

-----------------------------------------------------------------------------
(* The audit session under fairness: the request's promise settles, and    *)
(* React runs the scheduled validation effect.                             *)

SpecAuditLive ==
    /\ Init /\ [][NextAudit]_vars
    /\ WF_vars(ValidationEffect)
    /\ SF_vars(\E outcome \in AuditOutcomes : auditSettles(outcome))

\* C27: whenever an audit is running (isAuditing is true, with its one request
\* in flight), isAuditing later returns to false, whether the request gives a
\* text, gives nothing or fails.
C27_AuditingEnds == audit.isAuditing ~> ~audit.isAuditing

-----------------------------------------------------------------------------
(* The storage session: Save, Save As, New Project, recents and imports    *)

RecentsLimit == 15   \* .slice(0, 15)
StoredCount == 14    \* projects an earlier session left in the recents list
MaxProjectId == 16   \* project ids handed out, stored ones included
MaxOpened == 1       \* the recents-list positions a session clicks on

\* The design file imported in a storage session: one meter.
StorageImports ==
    { [nodes |-> << [id |-> 1, type |-> "METER", btu |-> 0] >>, edges |-> << >>,
       parses |-> TRUE] }

\* Names typed into the Save As dialog: left empty, and a name.
SaveAsNames == {"", "Copy"}

\* Math.random().toString(36).substr(2, 9): an id no project carries.
freshProjectId ==
    1 + Max({recentProjects[i].id : i \in 1..Len(recentProjects)} \cup {currentProjectId})

\* s.slice(0, n)
slice(s, n) == SubSeq(s, 1, IF Len(s) < n THEN Len(s) ELSE n)

\* What JSON.stringify writes for a number, read back: null for NaN and
\* Infinity, the number otherwise.
JsonNull == 0 - 3
jsonNumber(v) == IF v = NaN \/ v = Infinity THEN JsonNull ELSE v

\* JSON.parse(JSON.stringify(list)) of a recents list.
jsonRoundTrip(list) ==
    [i \in 1..Len(list) |->
        [id |-> list[i].id, name |-> list[i].name,
         data |-> [nodes |-> [k \in 1..Len(list[i].data.nodes) |->
                                 [list[i].data.nodes[k] EXCEPT !.btu = jsonNumber(@)]],
                   edges |-> [k \in 1..Len(list[i].data.edges) |->
                                 [list[i].data.edges[k] EXCEPT !.length = jsonNumber(@)]],
                   pressureDrop |-> jsonNumber(list[i].data.pressureDrop)]]]

\* The RecentProject built from the state; timestamp, nodeCount and pipeCount
\* are not modelled.
newRecent(id, name) ==
    [id |-> id, name |-> name,
     data |-> [nodes |-> nodes, edges |-> edges, pressureDrop |-> pressureDrop]]

\* saveToStorage(id, name) of App.tsx, and the same three lines inside
\* part_001's handleSave: the list set in state and written to localStorage.
saveToStorage(id, name) ==
    slice(<<newRecent(id, name)>>
              \o SelectSeq(recentProjects, LAMBDA p : p.id # id), RecentsLimit)

\* handleSave.  App.tsx and part_001 save under currentProjectId, or under a
\* fresh id that becomes currentProjectId; part_002 writes its single slot.
handleSave ==
    /\ ~crashed
    /\ IF build = "part_002"
       THEN /\ saved' = [nodes |-> nodes, edges |-> edges,
                         pressureDrop |-> pressureDrop, present |-> TRUE, parses |-> TRUE]
            /\ UNCHANGED projectVars
       ELSE LET id == IF currentProjectId # NoId THEN currentProjectId ELSE freshProjectId
                updated == saveToStorage(id, projectName)
            IN  /\ recentProjects' = updated
                /\ storedRecents' = jsonRoundTrip(updated)
                /\ currentProjectId' = id
                /\ UNCHANGED <<projectName, saved>>
    /\ UNCHANGED <<build, nodes, edges, pressureDrop, selectedPipeSize, validation,
                   effectPending, crashed, lastOp, audit, selectedId, canvasVars>>

\* handleSaveAs(newName).  App.tsx goes through saveToStorage; part_001 puts
\* the new project in front of the whole list.
handleSaveAs(newName) ==
    /\ ~crashed /\ build \in {"App", "part_001"}
    /\ IF newName = ""
       THEN UNCHANGED projectVars
       ELSE LET newId == freshProjectId
                updated == IF build = "App" THEN saveToStorage(newId, newName)
                           ELSE <<newRecent(newId, newName)>> \o recentProjects
            IN  /\ projectName' = newName
                /\ currentProjectId' = newId
                /\ recentProjects' = updated
                /\ storedRecents' = jsonRoundTrip(updated)
    /\ UNCHANGED <<build, nodes, edges, pressureDrop, selectedPipeSize, validation,
                   effectPending, crashed, lastOp, saved, audit, selectedId, canvasVars>>

\* The New Project button of App.tsx's home view and the New Design button of
\* part_001's: an empty design; only App.tsx resets currentProjectId.
\* setView('designer') mounts a new Canvas.
onNewProject ==
    /\ Idle /\ build \in {"App", "part_001"}
    /\ nodes' = << >>
    /\ edges' = << >>
    /\ projectName' = "New Project"
    /\ currentProjectId' = IF build = "App" THEN NoId ELSE currentProjectId
    /\ tapPipingSource' = NoId
    /\ effectPending' = TRUE
    /\ lastOp' = noOp("newProject", 0)
    /\ UNCHANGED <<build, pressureDrop, selectedPipeSize, validation, crashed, saved, audit,
                   selectedId, selectedTool, recentProjects, storedRecents>>

\* The recents list an earlier session left in localStorage: n projects saved
\* from an empty canvas under the default name.
StoredRecents(n) ==
    [k \in 1..n |->
        [id |-> k, name |-> "New Project",
         data |-> [nodes |-> << >>, edges |-> << >>, pressureDrop |-> 5]]]

InitStorage ==
    /\ build \in Builds
    /\ nodes = << >>
    /\ edges = << >>
    /\ pressureDrop = 5
    /\ selectedPipeSize = "HALF"
    /\ validation = << >>
    /\ effectPending = TRUE
    /\ crashed = FALSE
    /\ lastOp = OtherOp
    /\ saved = NoDesign
    /\ audit = NoAudit
    /\ selectedId = NoSelection
    /\ selectedTool = "select"
    /\ tapPipingSource = NoId
    /\ projectName = "New Project"
    /\ currentProjectId = NoId
    /\ recentProjects = IF build = "part_002" THEN << >> ELSE StoredRecents(StoredCount)
    /\ storedRecents = recentProjects

NextStorage ==
    \/ ValidationEffect
    \/ freshProjectId <= MaxProjectId /\ handleSave
    \/ \E newName \in SaveAsNames : freshProjectId <= MaxProjectId /\ handleSaveAs(newName)
    \/ onNewProject
    \/ \E i \in 1..Len(recentProjects) : i <= MaxOpened /\ onLoadProject(i)
    \/ \E d \in StorageImports : handleImport(d)
    \/ handleLoad

SpecStorage == InitStorage /\ [][NextStorage]_vars

\* A step of Save or Save As: the stored recents list changes.
SaveStep == storedRecents' # storedRecents

projectIds(list) == {list[i].id : i \in 1..Len(list)}

\* C28: the first Save after New Project or an import creates an entry with a
\* fresh id, and a Save replaces no entry but the one it writes: every other
\* entry stays in the list as it was (the oldest one leaves a full list).
C28_SaveWritesOwnEntry ==
    [][SaveStep =>
          LET top == recentProjects'[1] IN
              /\ lastOp.op \in {"newProject", "import"} =>
                     top.id \notin projectIds(recentProjects)
              /\ \A i \in 1..Len(recentProjects) :
                     (recentProjects[i].id # top.id /\ i < RecentsLimit) =>
                         \E j \in 1..Len(recentProjects') :
                             recentProjects'[j] = recentProjects[i]]_vars

\* C29: the recents list holds at most 15 entries, no project id twice, the
\* project saved last in front, and localStorage holds the list of the state.
C29_RecentsBounded ==
    /\ [](/\ Len(recentProjects) <= RecentsLimit
          /\ \A i, j \in 1..Len(recentProjects) :
                 recentProjects[i].id = recentProjects[j].id => i = j
          /\ storedRecents = recentProjects)
    /\ [][SaveStep => recentProjects'[1].id = currentProjectId']_vars

-----------------------------------------------------------------------------
(* The load session: what Load and Import do with what they are given      *)

\* What localStorage[SAVE_KEY] can hold when Load is pressed: nothing, a saved
\* design, text that is no JSON, and the JSON text {}.
LoadSlots ==
    { NoDesign, StoredDesign,
      [nodes |-> << >>, edges |-> << >>, pressureDrop |-> 0, present |-> TRUE,
       parses |-> FALSE],
      [nodes |-> undefinedNodes, edges |-> undefinedEdges, pressureDrop |-> 0,
       present |-> TRUE, parses |-> TRUE] }

\* The files picked for import: a design, a file that is no JSON, the JSON
\* text {}, and a JSON object whose edges key holds an object.
LoadFiles ==
    { [nodes |-> << [id |-> 1, type |-> "METER", btu |-> 0] >>, edges |-> << >>,
       parses |-> TRUE],
      [nodes |-> << >>, edges |-> << >>, parses |-> FALSE],
      [nodes |-> undefinedNodes, edges |-> undefinedEdges, parses |-> TRUE],
      [nodes |-> << [id |-> 1, type |-> "METER", btu |-> 0] >>, edges |-> objectEdges,
       parses |-> TRUE] }

InitLoad ==
    /\ build \in Builds
    /\ nodes = << >>
    /\ edges = << >>
    /\ pressureDrop = 5
    /\ selectedPipeSize = "HALF"
    /\ validation = << >>
    /\ effectPending = TRUE
    /\ crashed = FALSE
    /\ lastOp = OtherOp
    /\ saved \in IF build = "part_002" THEN LoadSlots ELSE {NoDesign}
    /\ audit = NoAudit
    /\ FreshSession

NextLoad ==
    \/ ValidationEffect
    \/ \E type \in TapTypes :
          /\ freshNodeId <= MaxNodes
          /\ handleAddNode(type, IF type = "APPLIANCE" THEN DEFAULT_APPLIANCES[2] ELSE 0)
    \/ \E f, t \in nodeIds(nodes) :
          f # t /\ freshEdgeId <= MaxEdges /\ onAddEdge(f, t)
    \/ \E f, t \in nodeIds(nodes) :
          f # t /\ freshEdgeId <= MaxEdges /\ handleAddEdge(f, t)
    \/ \E pd \in PressureDropInputs : setPressureDrop(pd)
    \/ handleLoad
    \/ \E d \in LoadFiles : handleImport(d)

SpecLoad == InitLoad /\ [][NextLoad]_vars

\* C30: nodes and edges are lists at all times, and a Load replaces the design
\* only when the stored text is present and is JSON: a failed load leaves
\* nodes, edges, pressureDrop and the project name as they were.
C30_LoadKeepsLists ==
    /\ [](isArray(nodes) /\ isArray(edges))
    /\ [][(lastOp'.op = "load" /\ lastOp.op # "load") =>
              (saved.present /\ saved.parses)]_vars

====
